---- MODULE Spec2Model ----
(***************************************************************************)
(* Model of the SymNet raw protocol engine (symnet_cp/protocol.py):        *)
(* SymNetRawProtocolCallback (future + timeouter task) and                 *)
(* SymNetRawProtocol (callback_queue dispatch, push data, error_received). *)
(* Text is modelled as sequences of one-character strings, regular         *)
(* expressions as sequences of tokens matched the way re.match does.       *)
(***************************************************************************)
EXTENDS Integers, Sequences, FiniteSets, TLC

\* ------------------------------------------------------------------ bounds
MaxCallbacks == 2
MaxEvents == 2

\* -------------------------------------------------------------- characters
CR == "\r"
LF == "\n"
Digits == {"0", "1", "2", "3", "4", "5", "6", "7", "8", "9"}
DigitVal == [c \in Digits |->
               CASE c = "0" -> 0 [] c = "1" -> 1 [] c = "2" -> 2 [] c = "3" -> 3
                 [] c = "4" -> 4 [] c = "5" -> 5 [] c = "6" -> 6 [] c = "7" -> 7
                 [] c = "8" -> 8 [] c = "9" -> 9]

\* ----------------------------------------------------- regular expressions
\* A regex is a sequence of tokens; re.match anchors at the start of the
\* string and accepts when the whole regex has been consumed (the string may
\* go on).  "$" matches at the end of the string or just before a newline
\* that is the last character of the string.
Ch(c) == [t |-> "ch", c |-> c]
OptCh(c) == [t |-> "optch", c |-> c]
Digit == [t |-> "digit", c |-> ""]
OptDigit == [t |-> "optdigit", c |-> ""]
Bol == [t |-> "bol", c |-> ""]
Eol == [t |-> "eol", c |-> ""]

AtEol(s, j) == j = Len(s) + 1 \/ (j = Len(s) /\ s[j] = LF)

RECURSIVE MatchEnds(_, _, _, _)
MatchEnds(re, i, s, j) ==
  IF i > Len(re) THEN {j}
  ELSE LET tok == re[i] IN
    CASE tok.t = "bol" -> IF j = 1 THEN MatchEnds(re, i + 1, s, j) ELSE {}
      [] tok.t = "eol" -> IF AtEol(s, j) THEN MatchEnds(re, i + 1, s, j) ELSE {}
      [] tok.t = "ch" ->
           IF j <= Len(s) /\ s[j] = tok.c THEN MatchEnds(re, i + 1, s, j + 1) ELSE {}
      [] tok.t = "digit" ->
           IF j <= Len(s) /\ s[j] \in Digits THEN MatchEnds(re, i + 1, s, j + 1) ELSE {}
      [] tok.t = "optch" ->
           (IF j <= Len(s) /\ s[j] = tok.c THEN MatchEnds(re, i + 1, s, j + 1) ELSE {})
             \cup MatchEnds(re, i + 1, s, j)
      [] tok.t = "optdigit" ->
           (IF j <= Len(s) /\ s[j] \in Digits THEN MatchEnds(re, i + 1, s, j + 1) ELSE {})
             \cup MatchEnds(re, i + 1, s, j)

\* re.fullmatch in the place of re.match
re_match_full(re, s) == (Len(s) + 1) \in MatchEnds(re, 1, s, 1)

re_match(re, s) == MatchEnds(re, 1, s, 1) # {}

\* "^#([0-9]{5})=(-?[0-9]{4,5})$"
PushRegex == <<Bol, Ch("#"), Digit, Digit, Digit, Digit, Digit, Ch("="),
               OptCh("-"), Digit, Digit, Digit, Digit, OptDigit, Eol>>

\* int() of a decimal string with an optional leading minus sign
RECURSIVE NatOf(_)
NatOf(ds) ==
  IF Len(ds) = 0 THEN 0
  ELSE 10 * NatOf(SubSeq(ds, 1, Len(ds) - 1)) + DigitVal[ds[Len(ds)]]

int(s) == IF Len(s) > 0 /\ s[1] = "-" THEN 0 - NatOf(Tail(s)) ELSE NatOf(s)

\* ------------------------------------------------------------------- lines
\* data_str.split("\r")
RECURSIVE split(_, _)
split(s, cur) ==
  IF Len(s) = 0 THEN <<cur>>
  ELSE IF Head(s) = CR THEN <<cur>> \o split(Tail(s), <<>>)
  ELSE split(Tail(s), Append(cur, Head(s)))

\* a filter that keeps the empty fragments
NonEmpty_keep(ls) == ls

\* [lines[i] for i in range(len(lines)) if len(lines[i]) > 0]
NonEmpty(ls) == SelectSeq(ls, LAMBDA l : Len(l) > 0)

Lines(data) == NonEmpty(split(data, <<>>))

NAK == <<"N", "A", "K">>
ACK == <<"A", "C", "K">>

IsNak(lines) == Len(lines) = 1 /\ lines[1] = NAK
\* a comparison with the line and its carriage return
IsAck_cr(lines) == Len(lines) = 1 /\ lines[1] = Append(ACK, CR)

IsAck(lines) == Len(lines) = 1 /\ lines[1] = ACK

\* ------------------------------------------------------------------ inputs
\* the datagrams the peer may send
Datagrams ==
  { <<"N", "A", "K", CR>>,
    <<"A", "C", "K", CR>>,
    <<"A", CR, CR, "B", CR>>,
    <<CR>>,
    <<"#", "0", "0", "0", "0", "1", "=", "6", "5", "5", "3", "5", CR>>,
    <<"#", "0", "0", "0", "0", "2", "=", "0", "0", "0", "0", "0", CR,
      "#", "1", "=", "9", "9", CR,
      "#", "0", "0", "0", "0", "1", "=", "-", "0", "0", "0", "1", CR>>,
    <<"#", "0", "0", "0", "0", "3", "=", "0", "0", "0", "0", "0", LF>> }

None == [some |-> FALSE, re |-> <<>>]
Some(r) == [some |-> TRUE, re |-> r]

\* the (expected_lines, regex) pairs callers register; the regex is "^ACK"
Rules == { [expected_lines |-> 1, regex |-> None],
           [expected_lines |-> 2, regex |-> None],
           [expected_lines |-> 1, regex |-> Some(<<Bol, Ch("A"), Ch("C"), Ch("K")>>)] }

\* ----------------------------------------------------------------- futures
Pending == [kind |-> "Pending", payload |-> <<>>]
TimeoutError == [kind |-> "TimeoutError", payload |-> <<>>]
Result(data) == [kind |-> "result", payload |-> data]
Exception(data) == [kind |-> "exception", payload |-> data]

\* a result slot that takes every write
set_result_overwrite(f, v) == [ok |-> TRUE, f |-> v]

\* Future.set_result / Future.set_exception: InvalidStateError when done
set_result(f, v) == IF f = Pending THEN [ok |-> TRUE, f |-> v]
                    ELSE [ok |-> FALSE, f |-> f]
set_exception(f, v) == IF f = Pending THEN [ok |-> TRUE, f |-> v]
                       ELSE [ok |-> FALSE, f |-> f]

\* a cancel that comes too late for a task whose sleep has elapsed
cancel_sleeping(t) == IF t = "sleeping" THEN "cancelled" ELSE t

\* Task.cancel(): a finished task is left alone, any other is cancelled
cancel(t) == IF t \in {"sleeping", "elapsed"} THEN "cancelled" ELSE t

\* ------------------------------------------------------------------- state
VARIABLES
  cbs,            \* the SymNetRawProtocolCallback objects created so far
  future,         \* future[c]: the result slot of callback object c
  timeout_task,   \* timeout_task[c]: sleeping, elapsed, fired, failed, cancelled
  callback_queue, \* SymNetRawProtocol.callback_queue (object identities)
  tasks,          \* put() tasks scheduled by ensure_future, in call_soon order
  state_queue,    \* the asyncio.Queue of SymNetRawControllerState
  consumed,       \* what the consumer of state_queue has taken
  produced,       \* history: every state in the order dispatch produced it
  events,         \* number of transport notifications handled so far
  last            \* history: what the last call of the protocol did

vars == <<cbs, future, timeout_task, callback_queue, tasks, state_queue,
          consumed, produced, events, last>>

\* op: the handler that ran; target: the callback object it delivered to;
\* raised: the handler ended by raising; path: the branch it took; timer: the
\* state of the target's timer task when the handler cancelled it
Op(op) == [op |-> op, target |-> 0, raised |-> FALSE, path |-> "none",
           timer |-> "none"]

Idle == Op("other")

Init ==
  /\ cbs = <<>>
  /\ future = <<>>
  /\ timeout_task = <<>>
  /\ callback_queue = <<>>
  /\ tasks = <<>>
  /\ state_queue = <<>>
  /\ consumed = <<>>
  /\ produced = <<>>
  /\ events = 0
  /\ last = Idle

\* ------------------------------------------------------- sequence helpers
\* list.remove(x): removes the first element equal to x
RECURSIVE IndexOf(_, _, _)
IndexOf(q, x, i) ==
  IF i > Len(q) THEN 0 ELSE IF q[i] = x THEN i ELSE IndexOf(q, x, i + 1)

RemoveAt(q, i) == SubSeq(q, 1, i - 1) \o SubSeq(q, i + 1, Len(q))

remove(q, x) == RemoveAt(q, IndexOf(q, x, 1))

Contains(q, x) == \E i \in DOMAIN q : q[i] = x

\* ------------------------------------------------- SymNetRawProtocolCallback
\* SymNetRawProtocolCallback.__init__ followed by callback_queue.append
Register(rule) ==
  /\ Len(cbs) < MaxCallbacks
  /\ cbs' = Append(cbs, rule)
  /\ future' = Append(future, Pending)
  /\ timeout_task' = Append(timeout_task, "sleeping")
  /\ callback_queue' = Append(callback_queue, Len(cbs) + 1)
  /\ last' = Idle
  /\ UNCHANGED <<tasks, state_queue, consumed, produced, events>>

\* asyncio.sleep(self.timeout) completes: the timeouter task becomes runnable
SleepElapsed(c) ==
  /\ c \in DOMAIN cbs
  /\ timeout_task[c] = "sleeping"
  /\ timeout_task' = [timeout_task EXCEPT ![c] = "elapsed"]
  /\ last' = Idle
  /\ UNCHANGED <<cbs, future, callback_queue, tasks, state_queue, consumed,
                 produced, events>>

\* the timeouter coroutine resumes after the sleep
timeouter_write(f) == set_exception(f, TimeoutError)

timeouter(c) ==
  /\ c \in DOMAIN cbs
  /\ timeout_task[c] = "elapsed"
  /\ LET w == timeouter_write(future[c]) IN
       /\ future' = [future EXCEPT ![c] = w.f]
       /\ timeout_task' = [timeout_task EXCEPT ![c] = IF w.ok THEN "fired" ELSE "failed"]
  /\ last' = Idle
  /\ UNCHANGED <<cbs, callback_queue, tasks, state_queue, consumed, produced,
                 events>>

\* a callback that swallows the exception of the transform
callback_swallow(f, throws, data) ==
  IF throws THEN [f |-> f, raised |-> FALSE]
  ELSE LET w == set_result(f, Result(data)) IN [f |-> w.f, raised |-> ~w.ok]

\* a callback without the except clause: the transform's exception leaves
\* callback and the future is not written
callback_reraise(f, throws, data) ==
  IF throws THEN [f |-> f, raised |-> TRUE]
  ELSE LET w == set_result(f, Result(data)) IN [f |-> w.f, raised |-> ~w.ok]

\* SymNetRawProtocolCallback.callback: the transform either returns or raises;
\* a write to a done future raises InvalidStateError out of callback
callback(f, throws, data) ==
  IF throws
    THEN LET w == set_exception(f, Exception(data)) IN [f |-> w.f, raised |-> ~w.ok]
    ELSE LET w == set_result(f, Result(data)) IN
           IF w.ok THEN [f |-> w.f, raised |-> FALSE]
           ELSE LET w2 == set_exception(f, Exception(data)) IN
                  [f |-> w2.f, raised |-> ~w2.ok]

\* the awaiting caller sees TimeoutError and drops its callback object
CallerCleanup(c) ==
  /\ c \in DOMAIN cbs
  /\ future[c] = TimeoutError
  /\ Contains(callback_queue, c)
  /\ callback_queue' = remove(callback_queue, c)
  /\ last' = Idle
  /\ UNCHANGED <<cbs, future, timeout_task, tasks, state_queue, consumed,
                 produced, events>>

\* ---------------------------------------------------------- SymNetRawProtocol
\* a test that leaves pushed data to the push-data loop
Selects_pushfirst(cb, data, lines) ==
  IF IsNak(lines) THEN TRUE
  ELSE IF \E k \in DOMAIN lines : MatchEnds(PushRegex, 1, lines[k], 1) # {} THEN FALSE
  ELSE IF cb.regex.some THEN re_match(cb.regex.re, data)
  ELSE Len(lines) = cb.expected_lines

\* a test that takes the line count for a match also when a regex is given
Selects_count(cb, data, lines) ==
  IF IsNak(lines) THEN TRUE
  ELSE \/ Len(lines) = cb.expected_lines
       \/ cb.regex.some /\ re_match(cb.regex.re, data)

\* the test of the dispatch loop for one callback object
Selects(cb, data, lines) ==
  IF IsNak(lines) THEN TRUE
  ELSE IF cb.regex.some THEN re_match(cb.regex.re, data)
  ELSE Len(lines) = cb.expected_lines

Category(cb, lines) ==
  IF IsNak(lines) THEN "callback_nak"
  ELSE IF cb.regex.some THEN "callback_regex"
  ELSE "callback_expected_lines"

\* the values of the pure functions on the inputs, computed once
LinesOf == [d \in Datagrams |-> Lines(d)]
SelectsOf == [cb \in Rules, d \in Datagrams |-> Selects(cb, d, LinesOf[d])]

\* the position of the first callback object the loop delivers to, 0 if none
RECURSIVE FirstSelected(_, _, _)
FirstSelected(q, data, i) ==
  IF i > Len(q) THEN 0
  ELSE IF SelectsOf[cbs[q[i]], data] THEN i
  ELSE FirstSelected(q, data, i + 1)

\* one pushed-data line
ParseLine(line) ==
  LET ends == MatchEnds(PushRegex, 1, line, 1) IN
    IF ends = {} THEN <<>>
    ELSE LET e == CHOOSE j \in ends : TRUE IN
      <<[controller_number |-> int(SubSeq(line, 2, 6)),
         controller_value |-> int(SubSeq(line, 8, e - 1))]>>

RECURSIVE PushedData(_)
PushedData(lines) ==
  IF Len(lines) = 0 THEN <<>>
  ELSE ParseLine(Head(lines)) \o PushedData(Tail(lines))

PushedDataOf == [d \in Datagrams |-> PushedData(LinesOf[d])]

datagram_received(data, throws) ==
  /\ events < MaxEvents
  /\ events' = events + 1
  /\ LET lines == LinesOf[data]
         i == FirstSelected(callback_queue, data, 1)
         pre == Op("datagram")
     IN IF i > 0
        THEN LET c == callback_queue[i]
                 r == callback(future[c], throws, data)
             IN /\ future' = [future EXCEPT ![c] = r.f]
                /\ timeout_task' = [timeout_task EXCEPT ![c] = cancel(@)]
                /\ callback_queue' = IF r.raised THEN callback_queue
                                     ELSE remove(callback_queue, c)
                /\ last' = [pre EXCEPT !.target = c, !.raised = r.raised,
                                       !.path = Category(cbs[c], lines),
                                       !.timer = timeout_task[c]]
                /\ UNCHANGED <<tasks, produced>>
        ELSE IF IsNak(lines) \/ IsAck(lines)
        THEN /\ last' = [pre EXCEPT !.path = IF IsNak(lines) THEN "nak" ELSE "ack"]
             /\ UNCHANGED <<future, timeout_task, callback_queue, tasks, produced>>
        ELSE LET ups == PushedDataOf[data] IN
             /\ tasks' = tasks \o ups
             /\ produced' = produced \o ups
             /\ last' = [pre EXCEPT !.path = "push"]
             /\ UNCHANGED <<future, timeout_task, callback_queue>>
  /\ UNCHANGED <<cbs, state_queue, consumed>>

\* an error_received that also cancels the timers of the callback objects it
\* drops from the queue
error_received_cancel(refused) ==
  /\ events < MaxEvents
  /\ events' = events + 1
  /\ callback_queue' = IF refused THEN <<>> ELSE callback_queue
  /\ timeout_task' = [c \in DOMAIN timeout_task |->
                        IF refused /\ Contains(callback_queue, c)
                        THEN cancel(timeout_task[c]) ELSE timeout_task[c]]
  /\ last' = [Op("error") EXCEPT !.raised = refused]
  /\ UNCHANGED <<cbs, future, tasks, state_queue, consumed, produced>>

\* an error_received without the isinstance test: every error is fatal
error_received_any(refused) ==
  /\ events < MaxEvents
  /\ events' = events + 1
  /\ callback_queue' = <<>>
  /\ last' = [Op("error") EXCEPT !.raised = TRUE]
  /\ UNCHANGED <<cbs, future, timeout_task, tasks, state_queue, consumed,
                 produced>>

\* error_received(exc)
error_received(refused) ==
  /\ events < MaxEvents
  /\ events' = events + 1
  /\ callback_queue' = IF refused THEN <<>> ELSE callback_queue
  /\ last' = [Op("error") EXCEPT !.raised = refused]
  /\ UNCHANGED <<cbs, future, timeout_task, tasks, state_queue, consumed,
                 produced>>

\* an event loop that runs the newest task first
NextTask_newest(ts) == Len(ts)

\* the first step of the oldest put() task: the queue is unbounded, so put
\* completes at once
NextTask(ts) == 1

put ==
  /\ Len(tasks) > 0
  /\ LET k == NextTask(tasks) IN
       /\ state_queue' = Append(state_queue, tasks[k])
       /\ tasks' = RemoveAt(tasks, k)
  /\ last' = Idle
  /\ UNCHANGED <<cbs, future, timeout_task, callback_queue, consumed, produced,
                 events>>

\* the consumer's state_queue.get()
get ==
  /\ Len(state_queue) > 0
  /\ consumed' = Append(consumed, Head(state_queue))
  /\ state_queue' = Tail(state_queue)
  /\ last' = Idle
  /\ UNCHANGED <<cbs, future, timeout_task, callback_queue, tasks, produced,
                 events>>

Ids == 1..MaxCallbacks

Next ==
  \/ \E rule \in Rules : Register(rule)
  \/ \E c \in Ids : SleepElapsed(c)
  \/ \E c \in Ids : timeouter(c)
  \/ \E c \in Ids : CallerCleanup(c)
  \/ \E d \in Datagrams, throws \in BOOLEAN : datagram_received(d, throws)
  \/ \E refused \in BOOLEAN : error_received(refused)
  \/ put
  \/ get

Spec == Init /\ [][Next]_vars

\* The same system on a bare NAK, a bare ACK and one push-data line, with
\* callers that register one line or "^ACK"; the event loop runs every
\* runnable timer task.
LiveDatagrams ==
  { <<"N", "A", "K", CR>>,
    <<"A", "C", "K", CR>>,
    <<"#", "0", "0", "0", "0", "1", "=", "6", "5", "5", "3", "5", CR>> }

LiveRules == {cb \in Rules : cb.expected_lines = 1}

LiveNext ==
  \/ \E rule \in LiveRules : Register(rule)
  \/ \E c \in Ids : SleepElapsed(c)
  \/ \E c \in Ids : timeouter(c)
  \/ \E c \in Ids : CallerCleanup(c)
  \/ \E d \in LiveDatagrams, throws \in BOOLEAN : datagram_received(d, throws)
  \/ \E refused \in BOOLEAN : error_received(refused)
  \/ put
  \/ get

LiveSpec ==
  /\ Init /\ [][LiveNext]_vars
  /\ \A c \in Ids : WF_vars(SleepElapsed(c)) /\ WF_vars(timeouter(c))

\* The protocol object alone: registration, timers and the transport's calls,
\* without the event loop running the put() tasks and without the consumer of
\* state_queue.  None of its actions reads state_queue or consumed.
DispatchNext ==
  \/ \E rule \in Rules : Register(rule)
  \/ \E c \in Ids : SleepElapsed(c)
  \/ \E c \in Ids : timeouter(c)
  \/ \E c \in Ids : CallerCleanup(c)
  \/ \E d \in Datagrams, throws \in BOOLEAN : datagram_received(d, throws)
  \/ \E refused \in BOOLEAN : error_received(refused)

DispatchSpec == Init /\ [][DispatchNext]_vars

TypeOK ==
  /\ Len(future) = Len(cbs) /\ Len(timeout_task) = Len(cbs)
  /\ \A i \in DOMAIN callback_queue : callback_queue[i] \in DOMAIN cbs

\* ------------------------------------------------------------------ claims
\* what the specification calls a match of an expectation's rule
RuleMatches(cb, d) ==
  IF cb.regex.some THEN re_match(cb.regex.re, d)
  ELSE Len(Lines(d)) = cb.expected_lines

RuleMatchesOf == [cb \in Rules, d \in Datagrams |-> RuleMatches(cb, d)]

MatchingIdx(q, d) == {i \in DOMAIN q : RuleMatchesOf[cbs[q[i]], d]}

Min(S) == CHOOSE x \in S : \A y \in S : x <= y

DatagramStep(d) == \E throws \in BOOLEAN : datagram_received(d, throws)

Delivered(d) == {Result(d), Exception(d)}

OthersUnchanged(c) ==
  \A o \in DOMAIN future \ {c} :
    future'[o] = future[o] /\ timeout_task'[o] = timeout_task[o]

\* C1: a datagram that is not a bare NAK resolves the oldest expectation of
\* the queue whose rule matches it, removes exactly that expectation and keeps
\* the others in their order.
C1_OldestMatchResolved ==
  [][\A d \in Datagrams :
      (DatagramStep(d) /\ ~IsNak(LinesOf[d]) /\ MatchingIdx(callback_queue, d) # {}) =>
        LET i == Min(MatchingIdx(callback_queue, d))
            c == callback_queue[i]
        IN /\ future'[c] \in Delivered(d)
           /\ callback_queue' = RemoveAt(callback_queue, i)
           /\ OthersUnchanged(c)]_vars

\* the same for a matching expectation that is still pending
C1_OldestPendingMatchResolved ==
  [][\A d \in Datagrams :
      (DatagramStep(d) /\ ~IsNak(LinesOf[d]) /\ MatchingIdx(callback_queue, d) # {}) =>
        LET i == Min(MatchingIdx(callback_queue, d))
            c == callback_queue[i]
        IN future[c] = Pending =>
             /\ future'[c] \in Delivered(d)
             /\ callback_queue' = RemoveAt(callback_queue, i)
             /\ OthersUnchanged(c)]_vars

\* C2: a bare NAK received while the queue is not empty resolves the oldest
\* expectation of the queue with the NAK payload and removes it, whatever its
\* rule, and touches no other expectation.
C2_NakResolvesOldest ==
  [][\A d \in Datagrams :
      (DatagramStep(d) /\ IsNak(LinesOf[d]) /\ callback_queue # <<>>) =>
        LET c == Head(callback_queue)
        IN /\ future'[c] \in Delivered(d)
           /\ callback_queue' = Tail(callback_queue)
           /\ OthersUnchanged(c)]_vars

\* the same for an oldest expectation that is still pending
C2_NakResolvesOldestPending ==
  [][\A d \in Datagrams :
      (DatagramStep(d) /\ IsNak(LinesOf[d]) /\ callback_queue # <<>>) =>
        LET c == Head(callback_queue)
        IN future[c] = Pending =>
             /\ future'[c] \in Delivered(d)
             /\ callback_queue' = Tail(callback_queue)
             /\ OthersUnchanged(c)]_vars

\* the queue without the expectations that are already resolved
PendingQueue == SelectSeq(callback_queue, LAMBDA c : future[c] = Pending)

\* C3: an expectation that timed out stays resolved with TimeoutError, and a
\* later datagram that would have matched it is dispatched without error: it
\* goes to the next pending expectation it selects or, if there is none, to
\* the ACK/NAK/push-data path.
C3_TimedOutIsPassedOver ==
  [][\A d \in Datagrams :
      (DatagramStep(d) /\ ~IsNak(LinesOf[d])
         /\ \E i \in MatchingIdx(callback_queue, d) :
               future[callback_queue[i]] = TimeoutError) =>
        /\ \A c \in DOMAIN future : future[c] = TimeoutError => future'[c] = TimeoutError
        /\ ~last'.raised
        /\ LET i == FirstSelected(PendingQueue, d, 1) IN
             IF i > 0
               THEN /\ future'[PendingQueue[i]] \in Delivered(d)
                    /\ last'.target = PendingQueue[i]
               ELSE last'.path \in {"nak", "ack", "push"}]_vars

\* C4: the result slot is single-assignment: once a future is done, no later
\* write from the timeout path or the delivery path changes it.
C4_SingleAssignment ==
  [][\A c \in DOMAIN future : future[c] # Pending => future'[c] = future[c]]_vars

\* a delivery was attempted on a slot the timeout path had already written
C4_Witness ==
  /\ last.op = "datagram" /\ last.raised
  /\ future[last.target] = TimeoutError

\* C5: every expectation in the queue is pending; one that timed out is
\* removed or, while still in the queue, is passed over by dispatch.
C5_QueueOnlyPending ==
  \A i \in DOMAIN callback_queue :
    LET c == callback_queue[i] IN
      \/ future[c] = Pending
      \/ future[c] = TimeoutError /\ ~(last.op = "datagram" /\ last.target = c)

\* C6: every expectation that was created eventually leaves the pending state.
Resolved(c) == c \in DOMAIN future /\ future[c] # Pending

C6_EventuallyResolved ==
  \A c \in Ids : (c \in DOMAIN future) ~> Resolved(c)

\* an expectation no datagram was delivered to has been resolved by its timer
C6_Witness ==
  \E c \in DOMAIN future :
    /\ future[c] = TimeoutError /\ timeout_task[c] = "fired"
    /\ events = 0

\* C7: a datagram either resolves exactly one expectation (the queue gets one
\* shorter, no state is produced) or resolves none, leaves the queue alone and
\* is discarded as a bare ACK/NAK or processed as push data.
NewlyResolved == {c \in DOMAIN future : future[c] = Pending /\ future'[c] # Pending}

C7_OneOutcome ==
  [][\A d \in Datagrams :
      DatagramStep(d) =>
        \/ /\ Cardinality(NewlyResolved) = 1
           /\ Len(callback_queue') = Len(callback_queue) - 1
           /\ produced' = produced /\ tasks' = tasks
        \/ /\ NewlyResolved = {}
           /\ callback_queue' = callback_queue
           /\ \/ last'.path \in {"nak", "ack"} /\ produced' = produced /\ tasks' = tasks
              \/ last'.path = "push"]_vars

\* C8: on the push-data path exactly the well-formed lines ("#", 5 digits, "=",
\* an optional "-", 4 or 5 digits) produce a state each, in line order, with the
\* parsed number and value; the other lines are skipped.
AllDigits(s) == \A k \in DOMAIN s : s[k] \in Digits

WellFormed(line) ==
  /\ Len(line) >= 11
  /\ line[1] = "#" /\ AllDigits(SubSeq(line, 2, 6)) /\ line[7] = "="
  /\ LET v == SubSeq(line, 8, Len(line))
         ds == IF v[1] = "-" THEN Tail(v) ELSE v
     IN Len(ds) \in {4, 5} /\ AllDigits(ds)

StateOf(line) ==
  [controller_number |-> int(SubSeq(line, 2, 6)),
   controller_value |-> int(SubSeq(line, 8, Len(line)))]

RECURSIVE StatesOf(_)
StatesOf(lines) ==
  IF Len(lines) = 0 THEN <<>>
  ELSE (IF WellFormed(Head(lines)) THEN <<StateOf(Head(lines))>> ELSE <<>>)
         \o StatesOf(Tail(lines))

StatesOfDatagram == [d \in Datagrams |-> StatesOf(Lines(d))]

C8_PushData ==
  [][\A d \in Datagrams :
      (DatagramStep(d) /\ last'.path = "push") =>
        /\ tasks' = tasks \o StatesOfDatagram[d]
        /\ future' = future /\ callback_queue' = callback_queue]_vars

\* C9: the consumer takes the states in the order dispatch produced them:
\* what was taken, then what is in the queue, then what the pending put()
\* tasks hold, is the production order, nothing lost and nothing reordered.
C9_SinkOrder == consumed \o state_queue \o tasks = produced

\* the consumer has taken the states of two datagrams, one of them with two
\* well-formed lines
C9_Witness == Len(consumed) >= 3 /\ consumed = produced

\* C10: a timeout or a NAK resolves one expectation only, and afterwards every
\* call of datagram_received completes normally and resolves the pending
\* expectation it selects.
NakResolved(c) == future[c].kind \in {"result", "exception"} /\ IsNak(Lines(future[c].payload))

C10_SiblingsUnaffected ==
  [][/\ \A c \in DOMAIN future :
          (future[c] = Pending /\ future'[c] = TimeoutError) =>
             OthersUnchanged(c) /\ callback_queue' = callback_queue
     /\ \A d \in Datagrams :
          (DatagramStep(d)
             /\ \E c \in DOMAIN future : future[c] = TimeoutError \/ NakResolved(c)) =>
            /\ ~last'.raised
            /\ LET i == FirstSelected(PendingQueue, d, 1) IN
                 i > 0 => future'[PendingQueue[i]] \in Delivered(d)]_vars

\* ------------------------------------------------------------------------ C11
FatalStep == error_received(TRUE)

\* the first half of C11: a connection-refused error empties callback_queue
\* and is raised to the caller of error_received
C11_FatalClearsAndRaises ==
  [][FatalStep => callback_queue' = <<>> /\ last'.raised]_vars

\* C11: after a connection-refused error has been raised the engine does not
\* go on serving: the datagram that arrives next resolves no expectation and
\* hands no state to the state queue.
C11_NoServiceAfterFatal ==
  [][(last.op = "error" /\ last.raised)
       => \A d \in Datagrams :
            DatagramStep(d) => /\ tasks' = tasks
                               /\ produced' = produced
                               /\ future' = future]_vars

\* ------------------------------------------------------------------------ C12
\* the number of non-empty fragments between carriage returns: a fragment
\* starts at every character that is not a carriage return and follows one
FragmentCount(d) ==
  Cardinality({k \in DOMAIN d : d[k] # CR /\ (k = 1 \/ d[k - 1] = CR)})

FragmentCountOf == [d \in Datagrams |-> FragmentCount(d)]

\* the datagrams that are not a bare NAK
NonNaks == {d \in Datagrams : ~IsNak(LinesOf[d])}

\* no callback object queued before position i is matched by the datagram
NoEarlierMatch(i, d) ==
  \A j \in 1..(i - 1) : ~RuleMatchesOf[cbs[callback_queue[j]], d]

\* C12: a callback object without a regex is matched by a datagram that is not
\* a bare NAK exactly when the datagram has expected_lines non-empty fragments
\* between carriage returns ("A\r\rB\r" has the two lines A, B); a pending one
\* that expects one line is resolved by a datagram of one line and by none of
\* zero, two or more lines.
C12_LineCountMatch ==
  [][/\ LinesOf[<<"A", CR, CR, "B", CR>>] = << <<"A">>, <<"B">> >>
     /\ \A d \in NonNaks :
          DatagramStep(d) =>
            \A i \in DOMAIN callback_queue :
              LET c == callback_queue[i]
                  n == cbs[c].expected_lines
              IN (~cbs[c].regex.some /\ NoEarlierMatch(i, d)) =>
                   /\ (last'.target = c) <=> (FragmentCountOf[d] = n)
                   /\ future[c] = Pending =>
                        /\ FragmentCountOf[d] = n =>
                             /\ future'[c] \in Delivered(d)
                             /\ ~Contains(callback_queue', c)
                        /\ FragmentCountOf[d] # n =>
                             /\ future'[c] = Pending
                             /\ Contains(callback_queue', c)]_vars

\* "A\r\rB\r" has resolved a callback object that expected two lines
C12_Witness ==
  /\ last.op = "datagram"
  /\ last.path = "callback_expected_lines"
  /\ cbs[last.target].expected_lines = 2
  /\ future[last.target] = Result(<<"A", CR, CR, "B", CR>>)

\* ------------------------------------------------------------------------ C13
\* the datagram has the line count callback object c expects, but c's regex
\* does not match it
CountOnly(c, d) ==
  /\ cbs[c].regex.some
  /\ FragmentCountOf[d] = cbs[c].expected_lines
  /\ ~RuleMatchesOf[cbs[c], d]

\* the callback object the loop reaches after position i, 0 if none
NextMatch(i, d) ==
  LET later == {j \in MatchingIdx(callback_queue, d) : j > i} IN
    IF later = {} THEN 0 ELSE callback_queue[Min(later)]

PassedOver(i, d) ==
  LET c == callback_queue[i] IN
    /\ future'[c] = future[c]
    /\ timeout_task'[c] = timeout_task[c]
    /\ Contains(callback_queue', c)
    /\ NoEarlierMatch(i, d) => last'.target = NextMatch(i, d)

\* C13 as stated: whatever the datagram, a callback object with a regex that
\* does not match is not resolved by a datagram of its expected line count,
\* and the loop goes on to the next callback object.
C13_RegexPrecedence ==
  [][\A d \in Datagrams :
       DatagramStep(d) =>
         \A i \in DOMAIN callback_queue :
           CountOnly(callback_queue[i], d) => PassedOver(i, d)]_vars

\* C13, amended: the same for every datagram that is not a bare NAK.
C13_RegexPrecedenceNonNak ==
  [][\A d \in Datagrams :
       (DatagramStep(d) /\ ~IsNak(LinesOf[d])) =>
         \A i \in DOMAIN callback_queue :
           CountOnly(callback_queue[i], d) => PassedOver(i, d)]_vars

\* a one-line datagram that "^ACK" does not match went past a pending callback
\* object with that regex, expecting one line, to a later one without a regex
C13_Witness ==
  /\ last.op = "datagram"
  /\ last.path = "callback_expected_lines"
  /\ future[last.target].kind = "result"
  /\ \E c \in 1..(last.target - 1) :
       /\ Contains(callback_queue, c)
       /\ future[c] = Pending
       /\ cbs[c].regex.some
       /\ cbs[c].expected_lines = FragmentCount(future[last.target].payload)

\* ------------------------------------------------------------------------ C14
\* re.fullmatch: the regex consumes the string to its end
fullmatch(re, s) == (Len(s) + 1) \in MatchEnds(re, 1, s, 1)

\* the regex consumes some prefix of the string (a regex without "$")
MatchesPrefix(re, s) == \E k \in 0..Len(s) : fullmatch(re, SubSeq(s, 1, k))

FullMatchOf ==
  [cb \in {r \in Rules : r.regex.some}, d \in Datagrams |-> fullmatch(cb.regex.re, d)]

MatchesPrefixOf ==
  [cb \in {r \in Rules : r.regex.some}, d \in Datagrams |->
     MatchesPrefix(cb.regex.re, d)]

\* the callback objects with a regex that the step resolves by the regex test
ResolvedByRegex ==
  {c \in NewlyResolved : cbs[c].regex.some /\ last'.path = "callback_regex"}

\* C14 as stated: a callback object with a regex is resolved by a datagram
\* only if the regex matches the whole undivided payload, to its last
\* character; a payload of which only a proper prefix matches resolves nothing.
C14_FullMatchOnly ==
  [][\A d \in Datagrams :
       DatagramStep(d) =>
         \A c \in ResolvedByRegex : FullMatchOf[cbs[c], d]]_vars

\* C14, amended: a callback object with a regex is resolved by a datagram that
\* is not a bare NAK only if the regex matches the undivided payload from its
\* first character on (the payload may go on after the match); the oldest
\* callback object, when pending, is resolved by every such datagram.
C14_PrefixMatchOnly ==
  [][\A d \in Datagrams :
       (DatagramStep(d) /\ ~IsNak(LinesOf[d])) =>
         /\ \A c \in NewlyResolved :
              cbs[c].regex.some =>
                 MatchesPrefixOf[cbs[c], d] /\ future'[c] \in Delivered(d)
         /\ \A c \in DOMAIN future :
              ( /\ callback_queue # <<>>
                /\ c = Head(callback_queue)
                /\ cbs[c].regex.some
                /\ future[c] = Pending
                /\ MatchesPrefixOf[cbs[c], d] ) => future'[c] \in Delivered(d)]_vars

\* "ACK\r" has resolved a callback object registered with the regex "^ACK"
C14_Witness ==
  /\ last.op = "datagram"
  /\ last.path = "callback_regex"
  /\ ~last.raised
  /\ future[last.target] = Result(<<"A", "C", "K", CR>>)

\* ------------------------------------------------------------------------ C15
\* the datagram is the one line `word` and carriage returns
Bare(d, word) ==
  FragmentCountOf[d] = 1 /\ SelectSeq(d, LAMBDA ch : ch # CR) = word

BareAcks == {d \in Datagrams : Bare(d, ACK)}
BareNaks == {d \in Datagrams : Bare(d, NAK)}

\* no callback object in the queue with a pending future is matched
NoPendingMatch(d) ==
  \A i \in MatchingIdx(callback_queue, d) : future[callback_queue[i]] # Pending

Discarded ==
  /\ callback_queue' = callback_queue
  /\ future' = future
  /\ timeout_task' = timeout_task
  /\ tasks' = tasks
  /\ produced' = produced
  /\ state_queue' = state_queue
  /\ consumed' = consumed
  /\ last'.path # "push"

\* C15: a bare ACK that no pending callback object matches, and a bare NAK
\* that finds the queue empty, change neither the queue, nor a future, nor the
\* state queue, and are not taken for pushed data; with no queued callback
\* object matched at all the call ends in the "ack" or "nak" branch.
C15_BareAckNakDiscarded ==
  [][/\ \A d \in BareAcks :
          (DatagramStep(d) /\ NoPendingMatch(d)) =>
             /\ Discarded
             /\ MatchingIdx(callback_queue, d) = {} =>
                  last'.path = "ack" /\ ~last'.raised
     /\ \A d \in BareNaks :
          (DatagramStep(d) /\ callback_queue = <<>>) =>
             Discarded /\ last'.path = "nak" /\ ~last'.raised]_vars

\* a bare ACK was discarded while a callback object expecting two lines waits
C15_Witness ==
  /\ last.op = "datagram"
  /\ last.path = "ack"
  /\ \E i \in DOMAIN callback_queue : future[callback_queue[i]] = Pending

\* ------------------------------------------------------------------------ C16
DeliveredKinds == {"result", "exception"}

\* C16: a delivery cancels the timer task of the callback object, and a
\* cancelled timer task never runs: a pending callback object the loop
\* delivers to, whether its sleep is still running or has elapsed with the
\* task not yet resumed, gets the delivery result and a cancelled timer; from
\* then on its future and its timer stay as they are, the future is never
\* TimeoutError, and no timer task ever attempts a write on a done future.
C16_DeliveryCancelsTimer ==
  [][/\ \A c \in DOMAIN future :
          /\ (last'.op = "datagram" /\ last'.target = c /\ future[c] = Pending) =>
               /\ timeout_task[c] \in {"sleeping", "elapsed"}
               /\ future'[c].kind \in DeliveredKinds
               /\ timeout_task'[c] = "cancelled"
          /\ future[c].kind \in DeliveredKinds =>
               /\ timeout_task[c] = "cancelled"
               /\ future'[c] = future[c]
          /\ timeout_task[c] = "cancelled" =>
               /\ timeout_task'[c] = "cancelled"
               /\ future'[c].kind \in DeliveredKinds
     /\ \A c \in DOMAIN future' : timeout_task'[c] # "failed"]_vars

\* a datagram was delivered to a callback object whose sleep had elapsed and
\* whose timer task had not yet resumed
C16_Witness ==
  /\ last.op = "datagram"
  /\ last.timer = "elapsed"
  /\ future[last.target].kind = "result"
  /\ timeout_task[last.target] = "cancelled"

\* ------------------------------------------------------------------------ C17
\* the position of the expectation the datagram is for: the oldest one for a
\* bare NAK, else the oldest one whose rule matches; 0 if there is none
OldestFor(d) ==
  IF d \in BareNaks THEN (IF callback_queue = <<>> THEN 0 ELSE 1)
  ELSE IF MatchingIdx(callback_queue, d) = {} THEN 0
  ELSE Min(MatchingIdx(callback_queue, d))

\* C17: when the datagram is for a pending callback object and the caller's
\* transform raises, the future gets that exception, the timer is cancelled,
\* the callback object leaves the queue, and datagram_received returns
\* normally: no other callback object is touched and no pushed data is parsed.
C17_TransformRaises ==
  [][\A d \in Datagrams :
       datagram_received(d, TRUE) =>
         LET i == OldestFor(d) IN
           (i > 0 /\ future[callback_queue[i]] = Pending) =>
              LET c == callback_queue[i] IN
                /\ future'[c] = Exception(d)
                /\ timeout_task'[c] = "cancelled"
                /\ callback_queue' = remove(callback_queue, c)
                /\ ~Contains(callback_queue', c)
                /\ ~last'.raised
                /\ last'.target = c
                /\ OthersUnchanged(c)
                /\ tasks' = tasks
                /\ produced' = produced]_vars

\* the transform raised on a datagram that a second, still queued and pending
\* callback object matches as well
C17_Witness ==
  /\ last.op = "datagram"
  /\ last.target > 0
  /\ ~last.raised
  /\ future[last.target].kind = "exception"
  /\ timeout_task[last.target] = "cancelled"
  /\ ~Contains(callback_queue, last.target)
  /\ \E i \in DOMAIN callback_queue :
       /\ future[callback_queue[i]] = Pending
       /\ RuleMatches(cbs[callback_queue[i]], future[last.target].payload)

\* ------------------------------------------------------------------------ C18
\* a pending callback object that is no longer in the queue: Register queues
\* every callback object, a delivery and the caller's cleanup take out done
\* ones only, so this one was in the queue that a fatal error cleared
Orphaned(c) ==
  /\ c \in DOMAIN future
  /\ future[c] = Pending
  /\ ~Contains(callback_queue, c)

TimedOut(c) == c \in DOMAIN future /\ future[c] = TimeoutError

\* C18: a connection-refused error empties the queue and writes no future and
\* stops no timer; a callback object that was pending then stays pending with
\* its timer running whatever datagram arrives, until its timer fires, and
\* the timer does fire: the future ends as TimeoutError.
C18_ClearedTimeOut ==
  /\ [][FatalStep => /\ callback_queue' = <<>>
                     /\ future' = future
                     /\ timeout_task' = timeout_task]_vars
  /\ [][\A c \in DOMAIN future :
          Orphaned(c) =>
            /\ timeout_task[c] \in {"sleeping", "elapsed"}
            /\ ~Contains(callback_queue', c)
            /\ \/ future'[c] = Pending /\ timeout_task'[c] \in {"sleeping", "elapsed"}
               \/ future'[c] = TimeoutError /\ timeout_task'[c] = "fired"]_vars
  /\ \A c \in Ids : Orphaned(c) ~> TimedOut(c)

\* a bare ACK found no one waiting and was discarded although a callback
\* object that it matches is still pending: a fatal error had cleared the queue
C18_Witness ==
  /\ last.op = "datagram"
  /\ last.path = "ack"
  /\ \E c \in DOMAIN future :
       Orphaned(c) /\ RuleMatches(cbs[c], <<"A", "C", "K", CR>>)

\* ------------------------------------------------------------------------ C19
\* the datagrams made of well-formed push-data lines only
PushOnly ==
  {d \in Datagrams :
     /\ LinesOf[d] # <<>>
     /\ \A k \in DOMAIN LinesOf[d] : WellFormed(LinesOf[d][k])}

\* C19: the callback queue comes before the push-data loop.  A datagram of n
\* well-formed push-data lines whose oldest matching queue entry is a callback
\* object without a regex expecting n lines is delivered to that callback
\* object, which it resolves when pending, and schedules no put(); a datagram
\* schedules a put() only when no queued callback object matches it.
C19_MatchBeforePush ==
  [][\A d \in Datagrams :
       DatagramStep(d) =>
         LET m == MatchingIdx(callback_queue, d) IN
           /\ tasks' # tasks => m = {}
           /\ (d \in PushOnly /\ m # {} /\ ~cbs[callback_queue[Min(m)]].regex.some) =>
                LET c == callback_queue[Min(m)] IN
                  /\ cbs[c].expected_lines = FragmentCountOf[d]
                  /\ last'.target = c
                  /\ tasks' = tasks
                  /\ produced' = produced
                  /\ future[c] = Pending =>
                       /\ future'[c] \in Delivered(d)
                       /\ ~Contains(callback_queue', c)]_vars

\* the push-data line "#00001=65535\r" has resolved a callback object that
\* expected one line, and no state was handed to the state queue
C19_Witness ==
  /\ last.op = "datagram"
  /\ last.path = "callback_expected_lines"
  /\ future[last.target].kind = "result"
  /\ future[last.target].payload \in PushOnly
  /\ produced = <<>>

\* ------------------------------------------------------------------------ C20
OtherErrorStep == error_received(FALSE)

\* C20: an error that is not a ConnectionRefusedError is logged and nothing
\* else: error_received changes neither the queue, nor a future, nor a timer,
\* nor the state queue and its pending put() tasks, and it does not raise.
C20_OtherErrorOnlyLogged ==
  [][OtherErrorStep =>
       /\ callback_queue' = callback_queue
       /\ future' = future
       /\ timeout_task' = timeout_task
       /\ tasks' = tasks
       /\ state_queue' = state_queue
       /\ consumed' = consumed
       /\ produced' = produced
       /\ cbs' = cbs
       /\ ~last'.raised]_vars

\* such an error came in while a callback object was waiting in the queue and
\* a state was waiting for the consumer
C20_Witness ==
  /\ last.op = "error"
  /\ ~last.raised
  /\ \E i \in DOMAIN callback_queue : future[callback_queue[i]] = Pending
  /\ state_queue # <<>>
====
